---- MODULE Spec2Model ----
(***************************************************************************)
(* Token refresh of antigravity-claude-proxy (src/cli/refresh.js): the     *)
(* account store file, the refresh run with its single suspension point    *)
(* (the awaited token exchange), and the result the run returns.           *)
(*                                                                         *)
(* JavaScript values are modelled as follows.  A missing or undefined      *)
(* string field is Undefined, null is Null; error messages are sequences   *)
(* of text fragments, so that String.includes is membership of a fragment; *)
(* an ISO-8601 timestamp string is <<"iso", ms>> and an absent one <<>>;   *)
(* times are milliseconds.                                                 *)
(***************************************************************************)
EXTENDS Integers, Sequences, FiniteSets, TLC

\* ---- bounds of the model ----
MaxAccounts == 2
MaxCalls == 4
MaxTicks == 1
\* entries of a model catalog handed to the resolver or returned by the fetch
MaxCatalog == 2

\* time that passes in one Tick step (one minute, in ms)
TickMs == 60 * 1000

\* ---- JavaScript values ----
Undefined == "<undefined>"
Null == "<null>"
Falsy(v) == v \in {Undefined, Null, ""}

\* Date.prototype.toISOString / new Date(string).getTime()
toISOString(ms) == <<"iso", ms>>
getTime(s) == IF Len(s) = 2 /\ s[1] = "iso" THEN <<s[2]>> ELSE <<>>

\* String.prototype.includes on a message made of fragments
includes(msg, sub) == \E k \in 1..Len(msg) : msg[k] = sub

\* ---- refresh.js ----
thresholdMs == 5 * 60 * 1000

InvalidReasonText == "Refresh token expired or revoked"
NoRefreshTokenMsg == <<"No refresh token available">>

\* what refreshAccessToken (auth/oauth.js) may answer: a new token (the c-th
\* call issues token c) with a lifetime in seconds, or an error with a message
Lifetimes == {60, 300}
Messages == { <<"invalid_grant", ": token revoked">>,
              <<"HTTP 400 ", "Bad Request">>,
              <<"fetch failed">> }
NewToken(c) == <<"at-new", c>>
Outcomes(r) ==
    {[ok |-> TRUE, accessToken |-> NewToken(r), expiresIn |-> L, message |-> <<>>] : L \in Lifetimes}
    \cup {[ok |-> FALSE, accessToken |-> <<>>, expiresIn |-> 0, message |-> m] : m \in Messages}

\* ---- the store file ----
Email(k) == IF k = 1 THEN "a@example.com" ELSE IF k = 2 THEN "b@example.com" ELSE "c@example.com"

\* the records an account may have in the store before the first run: due (two
\* minutes left), not due (an hour left), due and flagged invalid, and one
\* without refresh token and expiry
AccountsAt(k) ==
    {[email |-> Email(k), accessToken |-> <<"at-old">>, refreshToken |-> "rt",
      tokenExpiresAt |-> c[1], isInvalid |-> c[2],
      invalidReason |-> IF c[2] THEN InvalidReasonText ELSE Undefined] :
        c \in {<<toISOString(2 * 60 * 1000), FALSE>>,
               <<toISOString(60 * 60 * 1000), FALSE>>,
               <<toISOString(2 * 60 * 1000), TRUE>>}}
    \cup {[email |-> Email(k), accessToken |-> <<"at-old">>, refreshToken |-> Undefined,
           tokenExpiresAt |-> <<>>, isInvalid |-> FALSE, invalidReason |-> Undefined]}

StoreLists ==
    UNION {{s \in [1..n -> UNION {AccountsAt(k) : k \in 1..n}] :
              \A k \in 1..n : s[k] \in AccountsAt(k)} : n \in 0..MaxAccounts}

Files ==
    {[kind |-> "missing", accounts |-> <<>>], [kind |-> "corrupt", accounts |-> <<>>],
     [kind |-> "noaccounts", accounts |-> <<>>]}
    \cup {[kind |-> "json", accounts |-> s] : s \in StoreLists}

VARIABLES file, now, pc, force, accounts, i, refreshed, failed, skipped,
          invalidAccounts, result, calls, ticks,
          fileAtStart, writes, exch, reply, res, updAt, prev

\* a pure function of the refresh or onboarding code applied to one input
VARIABLES inp, out
\* one invocation of the refresh command: the runRefresh runs it starts, the
\* process exit status, and the order in which the runs saved
VARIABLES inv, rn, exited, saveOrder

fnVars == <<inp, out>>
cliVars == <<inv, rn, exited, saveOrder>>
refreshVars == <<file, now, pc, force, accounts, i, refreshed, failed, skipped,
                 invalidAccounts, result, calls, ticks,
                 fileAtStart, writes, exch, reply, res, updAt, prev>>

vars == <<file, now, pc, force, accounts, i, refreshed, failed, skipped,
          invalidAccounts, result, calls, ticks,
          fileAtStart, writes, exch, reply, res, updAt, prev,
         inp, out, inv, rn, exited, saveOrder>>

\* loadAccounts: null when the file is missing or does not parse
loadAccounts(f) ==
    IF f.kind = "missing" THEN [isNull |-> TRUE, hasAccounts |-> FALSE, accounts |-> <<>>]
    ELSE IF f.kind = "corrupt" THEN [isNull |-> TRUE, hasAccounts |-> FALSE, accounts |-> <<>>]
    ELSE [isNull |-> FALSE, hasAccounts |-> f.kind = "json", accounts |-> f.accounts]

\* variant: records flagged invalid are left out of the written document
saveAccounts_DropsInvalid(accts) ==
    [kind |-> "json", accounts |-> SelectSeq(accts, LAMBDA a : ~a.isInvalid)]

\* saveAccounts: the whole document replaces the file
saveAccounts(accts) == [kind |-> "json", accounts |-> accts]

\* variant: a token expiring exactly threshold from now counts as due
needsRefreshWithin_Inclusive(account, threshold, t) ==
    IF account.tokenExpiresAt = <<>> THEN TRUE
    ELSE LET expiresAt == getTime(account.tokenExpiresAt)
         IN  IF expiresAt = <<>> THEN FALSE
             ELSE (expiresAt[1] - t) <= threshold

\* needsRefresh(account, thresholdMs) at time t: true without tokenExpiresAt,
\* false for a date that does not parse (NaN compares false), else the strict
\* comparison of the remaining time with the threshold
needsRefreshWithin(account, threshold, t) ==
    IF account.tokenExpiresAt = <<>> THEN TRUE
    ELSE LET expiresAt == getTime(account.tokenExpiresAt)
         IN  IF expiresAt = <<>> THEN FALSE
             ELSE (expiresAt[1] - t) < threshold

\* variant: a token expiring exactly at the threshold counts as due
needsRefresh_Inclusive(account, t) ==
    IF account.tokenExpiresAt = <<>> THEN TRUE
    ELSE LET expiresAt == getTime(account.tokenExpiresAt)
         IN  IF expiresAt = <<>> THEN FALSE
             ELSE (expiresAt[1] - t) <= thresholdMs

\* needsRefresh called without a threshold: the default of five minutes
needsRefresh(account, t) == needsRefreshWithin(account, thresholdMs, t)

\* variant: the guard on the refresh token is missing
HasRefreshToken_Unchecked(account) == TRUE

HasRefreshToken(account) == ~Falsy(account.refreshToken)

refreshAccountNoToken ==
    [threw |-> FALSE, success |-> FALSE, accessToken |-> <<>>, expiresIn |-> 0,
     error |-> NoRefreshTokenMsg]

\* variant: the rejection of refreshAccessToken is not caught
refreshAccountSettled_NoCatch(o) ==
    IF o.ok
    THEN [threw |-> FALSE, success |-> TRUE, accessToken |-> o.accessToken,
          expiresIn |-> o.expiresIn, error |-> <<>>]
    ELSE [threw |-> TRUE, success |-> FALSE, accessToken |-> <<>>, expiresIn |-> 0,
          error |-> o.message]

refreshAccountSettled(o) ==
    IF o.ok
    THEN [threw |-> FALSE, success |-> TRUE, accessToken |-> o.accessToken,
          expiresIn |-> o.expiresIn, error |-> <<>>]
    ELSE [threw |-> FALSE, success |-> FALSE, accessToken |-> <<>>, expiresIn |-> 0,
          error |-> o.message]

emailOf(account, k) ==
    IF Falsy(account.email) THEN IF k = 1 THEN "Account 1" ELSE IF k = 2 THEN "Account 2" ELSE "Account 3"
    ELSE account.email

\* variant: the force option is ignored
ShouldSkip_IgnoresForce(f, account, t) == ~needsRefresh(account, t)

ShouldSkip(f, account, t) == ~f /\ ~needsRefresh(account, t)

\* variant: only invalid_grant is recognised
isTerminal_GrantOnly(error) == includes(error, "invalid_grant")
\* variant: every failure is treated as terminal
isTerminal_AnyFailure(error) == TRUE

isTerminal(error) == includes(error, "invalid_grant") \/ includes(error, "Bad Request")

\* variant: the lifetime in seconds is added to a time in milliseconds
NewExpiry_Seconds(t, expiresIn) == toISOString(t + expiresIn)

NewExpiry(t, expiresIn) == toISOString(t + expiresIn * 1000)

\* nothing has been applied yet
FnIdle == inp = [fn |-> "none"] /\ out = [fn |-> "none"]

\* no command has been invoked
CliIdle ==
    /\ inv = [how |-> "none", force |-> FALSE]
    /\ rn = <<>>
    /\ exited = <<>>
    /\ saveOrder = <<>>

RefreshInit ==
    /\ file \in Files
    /\ now = 0
    /\ pc = "idle"
    /\ force = FALSE
    /\ accounts = <<>>
    /\ i = 0
    /\ refreshed = 0 /\ failed = 0 /\ skipped = 0
    /\ invalidAccounts = <<>>
    /\ result = {}
    /\ calls = 0
    /\ ticks = 0
    /\ fileAtStart = file
    /\ writes = 0
    /\ exch = <<>>
    /\ reply = <<>>
    /\ res = <<>>
    /\ updAt = <<>>
    /\ prev = [fresh |-> FALSE, lives |-> {}]

Init == RefreshInit /\ FnIdle /\ CliIdle

\* what the run that just ended leaves for the next one to be compared with:
\* whether it refreshed every account with no time passed since, and if so
\* the lifetimes it was given
FreshNow ==
    /\ pc = "done" /\ Len(accounts) > 0 /\ refreshed = Len(accounts)
    /\ \A k \in 1..Len(updAt) : updAt[k] = <<now>>
PrevOf ==
    [fresh |-> FreshNow,
     lives |-> IF FreshNow THEN {o.expiresIn : o \in UNION {reply[k] : k \in 1..Len(reply)}}
               ELSE {}]

\* the exchange calls a run over file f makes at most; a run is started only
\* while the calls it may make fit in MaxCalls, so that no run is cut short
CallsNeeded(f) ==
    Cardinality({k \in 1..Len(f.accounts) : HasRefreshToken(f.accounts[k])})

\* runRefresh up to the loop: options, loadAccounts, the empty-store return
Start(f) ==
    /\ pc \in {"idle", "done", "killed"}
    /\ calls + CallsNeeded(file) <= MaxCalls
    /\ force' = f
    /\ prev' = PrevOf
    /\ fileAtStart' = file
    /\ writes' = 0
    /\ LET config == loadAccounts(file)
       IN  IF config.isNull \/ ~config.hasAccounts \/ Len(config.accounts) = 0
           THEN /\ pc' = "done"
                /\ result' = {[refreshed |-> 0, failed |-> 0, skipped |-> 0]}
                /\ accounts' = <<>>
                /\ i' = 0
           ELSE /\ pc' = "loop"
                /\ result' = {}
                /\ accounts' = config.accounts
                /\ i' = 1
    /\ refreshed' = 0 /\ failed' = 0 /\ skipped' = 0
    /\ invalidAccounts' = <<>>
    /\ exch' = [k \in 1..Len(accounts') |-> FALSE]
    /\ reply' = [k \in 1..Len(accounts') |-> {}]
    /\ res' = [k \in 1..Len(accounts') |-> {}]
    /\ updAt' = [k \in 1..Len(accounts') |-> <<>>]
    /\ UNCHANGED <<file, now, ticks, calls>>
    /\ UNCHANGED <<fnVars, cliVars>>

\* loop body, lines 123-130: the account is not due and the run is not forced
\* variant: a skipped account is passed over without being counted
SkipAccount_Uncounted ==
    /\ pc = "loop"
    /\ i <= Len(accounts)
    /\ ShouldSkip(force, accounts[i], now)
    /\ i' = i + 1
    /\ UNCHANGED <<file, now, pc, force, accounts, refreshed, failed, skipped,
                   invalidAccounts, result, calls, ticks, fileAtStart, writes,
                   exch, reply, res, updAt, prev>>
    /\ UNCHANGED <<fnVars, cliVars>>

SkipAccount ==
    /\ pc = "loop"
    /\ i <= Len(accounts)
    /\ ShouldSkip(force, accounts[i], now)
    /\ skipped' = skipped + 1
    /\ i' = i + 1
    /\ UNCHANGED <<file, now, pc, force, accounts, refreshed, failed, invalidAccounts,
                   result, calls, ticks, fileAtStart, writes, exch, reply, res, updAt, prev>>
    /\ UNCHANGED <<fnVars, cliVars>>

\* variant: a success clears isInvalid but leaves invalidReason as it was
ApplyResult_KeepsReason(r) ==
    /\ res' = [res EXCEPT ![i] = {r}]
    /\ IF r.success
       THEN /\ accounts' = [accounts EXCEPT ![i] =
                   [@ EXCEPT !.accessToken = r.accessToken,
                             !.tokenExpiresAt = NewExpiry(now, r.expiresIn),
                             !.isInvalid = FALSE]]
            /\ updAt' = [updAt EXCEPT ![i] = <<now>>]
            /\ refreshed' = refreshed + 1
            /\ UNCHANGED <<failed, invalidAccounts>>
       ELSE /\ IF isTerminal(r.error)
               THEN /\ accounts' = [accounts EXCEPT ![i] =
                           [@ EXCEPT !.isInvalid = TRUE,
                                     !.invalidReason = InvalidReasonText]]
                    /\ invalidAccounts' = Append(invalidAccounts, emailOf(accounts[i], i))
               ELSE UNCHANGED <<accounts, invalidAccounts>>
            /\ failed' = failed + 1
            /\ UNCHANGED <<refreshed, updAt>>
    /\ i' = i + 1

\* lines 135-154: the result of refreshAccount is applied to accounts[i]
ApplyResult(r) ==
    /\ res' = [res EXCEPT ![i] = {r}]
    /\ IF r.success
       THEN /\ accounts' = [accounts EXCEPT ![i] =
                   [@ EXCEPT !.accessToken = r.accessToken,
                             !.tokenExpiresAt = NewExpiry(now, r.expiresIn),
                             !.isInvalid = FALSE,
                             !.invalidReason = Null]]
            /\ updAt' = [updAt EXCEPT ![i] = <<now>>]
            /\ refreshed' = refreshed + 1
            /\ UNCHANGED <<failed, invalidAccounts>>
       ELSE /\ IF isTerminal(r.error)
               THEN /\ accounts' = [accounts EXCEPT ![i] =
                           [@ EXCEPT !.isInvalid = TRUE,
                                     !.invalidReason = InvalidReasonText]]
                    /\ invalidAccounts' = Append(invalidAccounts, emailOf(accounts[i], i))
               ELSE UNCHANGED <<accounts, invalidAccounts>>
            /\ failed' = failed + 1
            /\ UNCHANGED <<refreshed, updAt>>
    /\ i' = i + 1

\* refreshAccount without a refresh token: it returns at once, lines 65-70
AttemptWithoutToken ==
    /\ pc = "loop"
    /\ i <= Len(accounts)
    /\ ~ShouldSkip(force, accounts[i], now)
    /\ ~HasRefreshToken(accounts[i])
    /\ ApplyResult(refreshAccountNoToken)
    /\ UNCHANGED <<file, now, pc, force, skipped, result, calls, ticks,
                   fileAtStart, writes, exch, reply, prev>>
    /\ UNCHANGED <<fnVars, cliVars>>

\* variant: the exchange is started and the loop goes on without awaiting it
CallExchange_NoAwait ==
    /\ pc = "loop"
    /\ i <= Len(accounts)
    /\ ~ShouldSkip(force, accounts[i], now)
    /\ HasRefreshToken(accounts[i])
    /\ i' = i + 1
    /\ exch' = [exch EXCEPT ![i] = TRUE]
    /\ calls' = calls + 1
    /\ UNCHANGED <<file, now, pc, force, accounts, refreshed, failed, skipped,
                   invalidAccounts, result, ticks, fileAtStart, writes, reply, res, updAt, prev>>
    /\ UNCHANGED <<fnVars, cliVars>>

\* refreshAccount calls refreshAccessToken and the run is suspended, line 73
CallExchange ==
    /\ pc = "loop"
    /\ i <= Len(accounts)
    /\ ~ShouldSkip(force, accounts[i], now)
    /\ HasRefreshToken(accounts[i])
    /\ pc' = "await"
    /\ exch' = [exch EXCEPT ![i] = TRUE]
    /\ calls' = calls + 1
    /\ UNCHANGED <<file, now, force, accounts, i, refreshed, failed, skipped,
                   invalidAccounts, result, ticks, fileAtStart, writes, reply, res, updAt, prev>>
    /\ UNCHANGED <<fnVars, cliVars>>

\* the exchange answers; refreshAccount returns and the loop body goes on
SettleCore(o) ==
    /\ pc = "await"
    /\ reply' = [reply EXCEPT ![i] = {o}]
    /\ LET r == refreshAccountSettled(o)
       IN  IF r.threw
           THEN /\ pc' = "raised"
                /\ UNCHANGED <<accounts, i, refreshed, failed, invalidAccounts, res, updAt>>
           ELSE /\ pc' = "loop"
                /\ ApplyResult(r)
    /\ UNCHANGED <<now, force, skipped, result, calls, ticks, fileAtStart, exch, prev>>
    /\ UNCHANGED <<fnVars, cliVars>>

\* variant: the store is written after every account
ExchangeSettles_SavesEach(o) ==
    /\ SettleCore(o)
    /\ file' = saveAccounts(accounts')
    /\ writes' = writes + 1

ExchangeSettles(o) ==
    /\ SettleCore(o)
    /\ UNCHANGED <<file, writes>>

\* lines 157-177: the one save, and the return of the counts
FinishCore ==
    /\ pc = "loop"
    /\ i > Len(accounts)
    /\ pc' = "done"
    /\ result' = {[refreshed |-> refreshed, failed |-> failed, skipped |-> skipped,
                   invalidAccounts |-> invalidAccounts]}
    /\ UNCHANGED <<now, force, accounts, i, refreshed, failed, skipped, invalidAccounts,
                   calls, ticks, fileAtStart, exch, reply, res, updAt, prev>>
    /\ UNCHANGED <<fnVars, cliVars>>

\* variant: the store is written only when some account was attempted
Finish_SavesIfAttempted ==
    /\ FinishCore
    /\ IF refreshed + failed > 0
       THEN file' = saveAccounts(accounts) /\ writes' = writes + 1
       ELSE UNCHANGED <<file, writes>>

Finish ==
    /\ FinishCore
    /\ file' = saveAccounts(accounts)
    /\ writes' = writes + 1

\* time passes while the exchange is outstanding and between runs
Tick ==
    /\ pc \in {"await", "done"}
    /\ ticks < MaxTicks
    /\ ticks' = ticks + 1
    /\ now' = now + TickMs
    /\ UNCHANGED <<file, pc, force, accounts, i, refreshed, failed, skipped,
                   invalidAccounts, result, calls, fileAtStart, writes, exch, reply, res, updAt, prev>>
    /\ UNCHANGED <<fnVars, cliVars>>

\* the process is stopped from outside while the exchange is outstanding
Interrupt ==
    /\ pc = "await"
    /\ pc' = "killed"
    /\ UNCHANGED <<file, now, force, accounts, i, refreshed, failed, skipped,
                   invalidAccounts, result, calls, ticks, fileAtStart, writes,
                   exch, reply, res, updAt, prev>>
    /\ UNCHANGED <<fnVars, cliVars>>

Next ==
    \/ \E f \in BOOLEAN : Start(f)
    \/ SkipAccount
    \/ AttemptWithoutToken
    \/ CallExchange
    \/ \E o \in Outcomes(calls) : ExchangeSettles(o)
    \/ Finish
    \/ Tick
    \/ Interrupt

Spec == Init /\ [][Next]_vars

\* the runs that are left to themselves
NextUninterrupted ==
    \/ \E f \in BOOLEAN : Start(f)
    \/ SkipAccount
    \/ AttemptWithoutToken
    \/ CallExchange
    \/ \E o \in Outcomes(calls) : ExchangeSettles(o)
    \/ Finish
    \/ Tick

\* no run is interrupted, the synchronous parts of the loop run on, and every
\* exchange call settles
FairSpec ==
    /\ Init /\ [][NextUninterrupted]_vars
    /\ WF_vars(SkipAccount)
    /\ WF_vars(AttemptWithoutToken)
    /\ WF_vars(CallExchange)
    /\ WF_vars(\E o \in Outcomes(calls) : ExchangeSettles(o))
    /\ WF_vars(Finish)

\* ---- the refresh command: refresh.js run directly, or through bin/cli.js ----
\* "entry" is the run started by the module-level code of refresh.js, "main"
\* the run awaited by the refresh case of bin/cli.js after it imported
\* refresh.js, "other" the run of a second process executing refresh.js
RunIds == {"entry", "main", "other"}

\* how the command is started: refresh.js directly, through bin/cli.js, or
\* directly while another process runs it too
Hows == {"direct", "cli", "overlap"}
Participants(how) ==
    IF how = "direct" THEN {"entry"}
    ELSE IF how = "cli" THEN {"entry", "main"} ELSE {"entry", "other"}
\* the runs inside the command's own process
InProcess(how) == IF how = "cli" THEN {"entry", "main"} ELSE {"entry"}

NotStarted ==
    [pc |-> "none", accounts |-> <<>>, i |-> 0, refreshed |-> 0, failed |-> 0,
     skipped |-> 0, invalidAccounts |-> <<>>, loaded |-> <<>>, savesSeen |-> 0,
     settled |-> 0, result |-> {}]

RunNo(r) == IF r = "entry" THEN 1 ELSE 2
\* what the exchange may answer a run: a token good for five minutes, a
\* revoked grant, or a network error
CliOutcomes(r) ==
    {o \in Outcomes(RunNo(r)) :
        \/ o.ok /\ o.expiresIn = 300
        \/ ~o.ok /\ ~includes(o.message, "Bad Request")}

CliInit ==
    /\ RefreshInit
    /\ FnIdle
    /\ inv \in [how : Hows, force : BOOLEAN]
    /\ rn = [r \in RunIds |-> NotStarted]
    /\ exited = <<>>
    /\ saveOrder = <<>>

\* a run of the command's process can take a step only while the process lives
Alive(r) == r \in InProcess(inv.how) => exited = <<>>

\* the continuation of the module-level promise, refresh.js:197-201: only the
\* entry run's result decides on process.exit(1)
ExitAfter(r, failedCount) ==
    IF r = "entry" /\ failedCount > 0 THEN <<1>> ELSE exited

cliFrame == <<now, pc, force, accounts, i, refreshed, failed, skipped,
              invalidAccounts, result, calls, ticks,
              fileAtStart, writes, exch, reply, res, updAt, prev, fnVars, inv>>

\* runRefresh is called, lines 90-114: the main run only after the import has
\* started the entry run, and before any network reply reaches the entry run
CliStart(r) ==
    /\ r \in Participants(inv.how)
    /\ Alive(r)
    /\ rn[r].pc = "none"
    /\ r = "main" => (rn["entry"].pc # "none" /\ rn["entry"].settled = 0)
    /\ LET config == loadAccounts(file)
       IN  IF config.isNull \/ ~config.hasAccounts \/ Len(config.accounts) = 0
           THEN /\ rn' = [rn EXCEPT ![r] =
                       [@ EXCEPT !.pc = "done", !.savesSeen = Len(saveOrder),
                          !.result = {[refreshed |-> 0, failed |-> 0, skipped |-> 0]}]]
           ELSE /\ rn' = [rn EXCEPT ![r] =
                       [@ EXCEPT !.pc = "loop", !.accounts = config.accounts,
                          !.loaded = config.accounts, !.i = 1,
                          !.savesSeen = Len(saveOrder)]]
    /\ UNCHANGED <<file, exited, saveOrder, cliFrame>>

CliSkip(r) ==
    /\ Alive(r)
    /\ rn[r].pc = "loop"
    /\ rn[r].i <= Len(rn[r].accounts)
    /\ ShouldSkip(inv.force, rn[r].accounts[rn[r].i], now)
    /\ rn' = [rn EXCEPT ![r] = [@ EXCEPT !.skipped = @ + 1, !.i = @ + 1]]
    /\ UNCHANGED <<file, exited, saveOrder, cliFrame>>

\* lines 135-154 on the run's own account list and counters
RunAfter(run, r) ==
    LET k == run.i
    IN  IF r.success
        THEN [run EXCEPT !.accounts[k] =
                    [@ EXCEPT !.accessToken = r.accessToken,
                              !.tokenExpiresAt = NewExpiry(now, r.expiresIn),
                              !.isInvalid = FALSE,
                              !.invalidReason = Null],
                         !.refreshed = @ + 1, !.i = @ + 1, !.pc = "loop"]
        ELSE IF isTerminal(r.error)
             THEN [run EXCEPT !.accounts[k] =
                         [@ EXCEPT !.isInvalid = TRUE,
                                   !.invalidReason = InvalidReasonText],
                              !.invalidAccounts = Append(@, emailOf(run.accounts[k], k)),
                              !.failed = @ + 1, !.i = @ + 1, !.pc = "loop"]
             ELSE [run EXCEPT !.failed = @ + 1, !.i = @ + 1, !.pc = "loop"]

CliNoToken(r) ==
    /\ Alive(r)
    /\ rn[r].pc = "loop"
    /\ rn[r].i <= Len(rn[r].accounts)
    /\ ~ShouldSkip(inv.force, rn[r].accounts[rn[r].i], now)
    /\ ~HasRefreshToken(rn[r].accounts[rn[r].i])
    /\ rn' = [rn EXCEPT ![r] = RunAfter(@, refreshAccountNoToken)]
    /\ UNCHANGED <<file, exited, saveOrder, cliFrame>>

CliCall(r) ==
    /\ Alive(r)
    /\ rn[r].pc = "loop"
    /\ rn[r].i <= Len(rn[r].accounts)
    /\ ~ShouldSkip(inv.force, rn[r].accounts[rn[r].i], now)
    /\ HasRefreshToken(rn[r].accounts[rn[r].i])
    /\ rn' = [rn EXCEPT ![r] = [@ EXCEPT !.pc = "await"]]
    /\ UNCHANGED <<file, exited, saveOrder, cliFrame>>

CliSettle(r, o) ==
    /\ Alive(r)
    /\ rn[r].pc = "await"
    /\ LET x == refreshAccountSettled(o)
       IN  rn' = [rn EXCEPT ![r] =
                     IF x.threw THEN [@ EXCEPT !.pc = "raised"]
                     ELSE [RunAfter(@, x) EXCEPT !.settled = @ + 1]]
    /\ UNCHANGED <<file, exited, saveOrder, cliFrame>>

\* lines 157-177 without the write, then the continuation of the entry promise
CliFinishCore(r) ==
    /\ Alive(r)
    /\ rn[r].pc = "loop"
    /\ rn[r].i > Len(rn[r].accounts)
    /\ rn' = [rn EXCEPT ![r] =
                 [@ EXCEPT !.pc = "done",
                    !.result = {[refreshed |-> rn[r].refreshed, failed |-> rn[r].failed,
                                 skipped |-> rn[r].skipped,
                                 invalidAccounts |-> rn[r].invalidAccounts]}]]
    /\ saveOrder' = Append(saveOrder, r)
    /\ exited' = ExitAfter(r, rn[r].failed)
    /\ UNCHANGED cliFrame

\* variant: the save writes only the records this run changed
CliFinish_Merge(r) ==
    /\ CliFinishCore(r)
    /\ file' = [kind |-> "json",
                 accounts |-> [k \in 1..Len(rn[r].accounts) |->
                     IF rn[r].accounts[k] # rn[r].loaded[k]
                     THEN rn[r].accounts[k] ELSE file.accounts[k]]]

CliFinish(r) ==
    /\ CliFinishCore(r)
    /\ file' = saveAccounts(rn[r].accounts)

\* nothing is left to do in the command's process and process.exit was not
\* called: the process ends with status 0
CliExit ==
    /\ exited = <<>>
    /\ \A r \in InProcess(inv.how) : rn[r].pc = "done"
    /\ exited' = <<0>>
    /\ UNCHANGED <<file, rn, saveOrder, cliFrame>>

CliNext ==
    \/ \E r \in RunIds : CliStart(r)
    \/ \E r \in RunIds : CliSkip(r)
    \/ \E r \in RunIds : CliNoToken(r)
    \/ \E r \in RunIds : CliCall(r)
    \/ \E r \in RunIds : \E o \in CliOutcomes(r) : CliSettle(r, o)
    \/ \E r \in RunIds : CliFinish(r)
    \/ CliExit

CliSpec == CliInit /\ [][CliNext]_vars

\* ---- pure functions applied to bounded inputs ----
\* tokenExpiresAt values: absent, a string that is no date, and instants on the
\* minute grid
NrExpiries ==
    {<<>>, <<"not a date">>} \cup {toISOString(m * TickMs) : m \in {0, 1, 2, 5, 6, 10}}
NrAccounts ==
    {[email |-> Email(1), accessToken |-> <<"at-old">>, refreshToken |-> "rt",
      tokenExpiresAt |-> e, isInvalid |-> FALSE, invalidReason |-> Undefined] :
        e \in NrExpiries}
\* the threshold argument: omitted, or a number of milliseconds
Thresholds == {<<>>} \cup {<<m * TickMs>> : m \in {0, 1, 5}}
NrNows == {m * TickMs : m \in {0, 1}}

\* ---- onboard.js: model catalog and tier resolution ----
\* model ids are sequences of fragments; includes() above is String.includes
\* one catalog entry; description and remainingFraction are display-only and
\* left out
Model(id, family, tier, hasQuota) ==
    [id |-> id, family |-> family, tier |-> tier, hasQuota |-> hasQuota]

\* variant: the static list without its haiku entry
ALL_MODELS_NoHaiku ==
    << Model(<<"claude", "opus", "4-5-thinking">>, "claude", "opus", "undefined"),
       Model(<<"claude", "sonnet", "4-5-thinking">>, "claude", "sonnet", "undefined"),
       Model(<<"claude", "sonnet", "4-5">>, "claude", "sonnet", "undefined"),
       Model(<<"gemini", "3", "pro-high">>, "gemini", "opus", "undefined"),
       Model(<<"gemini", "3", "pro-low">>, "gemini", "sonnet", "undefined"),
       Model(<<"gemini", "3", "flash">>, "gemini", "sonnet", "undefined") >>

\* the static fallback list; its entries carry no hasQuota field
ALL_MODELS ==
    << Model(<<"claude", "opus", "4-5-thinking">>, "claude", "opus", "undefined"),
       Model(<<"claude", "sonnet", "4-5-thinking">>, "claude", "sonnet", "undefined"),
       Model(<<"claude", "sonnet", "4-5">>, "claude", "sonnet", "undefined"),
       Model(<<"gemini", "3", "pro-high">>, "gemini", "opus", "undefined"),
       Model(<<"gemini", "3", "pro-low">>, "gemini", "sonnet", "undefined"),
       Model(<<"gemini", "3", "flash">>, "gemini", "sonnet", "undefined"),
       Model(<<"gemini", "2.5", "flash-lite">>, "gemini", "haiku", "undefined") >>

Tiers == {"opus", "sonnet", "haiku"}

\* tierPriority[t]; 0 stands for the undefined of a tier that is not a key
tierPriority(t) ==
    IF t = "opus" THEN 3 ELSE IF t = "sonnet" THEN 2 ELSE IF t = "haiku" THEN 1 ELSE 0
\* x || d on numbers
OrElse(x, d) == IF x = 0 THEN d ELSE x

\* the filter callback: tier rank at least one below the requested rank
suitable(m, tier) == OrElse(tierPriority(m.tier), 2) >= tierPriority(tier) - 1

\* variant: claude is put first whatever the requested tier
compare_ClaudeFirst(a, b, tier) ==
    IF a.hasQuota # b.hasQuota THEN (IF a.hasQuota = "true" THEN -1 ELSE 1)
    ELSE IF a.family # b.family
         THEN (IF a.family = "claude" THEN -1 ELSE 1)
         ELSE OrElse(tierPriority(b.tier), 0) - OrElse(tierPriority(a.tier), 0)

\* the sort comparator
compare(a, b, tier) ==
    IF a.hasQuota # b.hasQuota THEN (IF a.hasQuota = "true" THEN -1 ELSE 1)
    ELSE IF a.family # b.family
         THEN (IF tier = "haiku"
               THEN (IF a.family = "gemini" THEN -1 ELSE 1)
               ELSE (IF a.family = "claude" THEN -1 ELSE 1))
         ELSE OrElse(tierPriority(b.tier), 0) - OrElse(tierPriority(a.tier), 0)

\* Array.prototype.sort is stable: x goes after the last entry that does not
\* compare greater than it
RECURSIVE insertSorted(_, _, _)
insertSorted(s, x, tier) ==
    IF s = <<>> THEN <<x>>
    ELSE IF compare(s[Len(s)], x, tier) > 0
         THEN Append(insertSorted(SubSeq(s, 1, Len(s) - 1), x, tier), s[Len(s)])
         ELSE Append(s, x)

RECURSIVE sort(_, _)
sort(s, tier) ==
    IF s = <<>> THEN <<>>
    ELSE insertSorted(sort(SubSeq(s, 1, Len(s) - 1), tier), s[Len(s)], tier)

\* suitableModels after the filter and the sort
suitableModels(tier, availableModels) ==
    sort(SelectSeq(availableModels, LAMBDA m : suitable(m, tier)), tier)

\* findIndex(m => m.hasQuota !== false), 0-based, -1 when there is none
findIndex(s) ==
    IF \E k \in 1..Len(s) : s[k].hasQuota # "false"
    THEN (CHOOSE k \in 1..Len(s) :
             /\ s[k].hasQuota # "false"
             /\ \A j \in 1..(k - 1) : s[j].hasQuota = "false") - 1
    ELSE -1

\* variant: the default is always the first listed entry
defaultIndex_First(s) == 1

\* findIndex(...) + 1 || 1
defaultIndex(s) == OrElse(findIndex(s) + 1, 1)

\* what the user types at the prompt: nothing, a number, or other text
Answers ==
    {[typed |-> "nothing", n |-> 0], [typed |-> "text", n |-> 0]}
        \cup {[typed |-> "number", n |-> k] : k \in 0..(MaxCatalog + 1)}

\* parseInt(choice, 10) - 1 of the prompt's result, <<>> for NaN; an empty
\* answer makes prompt return String(defaultIndex)
choiceIndex(answer, s) ==
    IF answer.typed = "nothing" THEN <<defaultIndex(s) - 1>>
    ELSE IF answer.typed = "number" THEN <<answer.n - 1>>
    ELSE <<>>

\* variant: the fallback is the head of the static list whatever the tier
fallbackFor_Head(tier) == <<ALL_MODELS[1].id>>

\* ALL_MODELS.find(m => m.tier === tier)?.id, <<>> for undefined
fallbackFor(tier) ==
    IF \E k \in 1..Len(ALL_MODELS) : ALL_MODELS[k].tier = tier
    THEN <<ALL_MODELS[CHOOSE k \in 1..Len(ALL_MODELS) :
                /\ ALL_MODELS[k].tier = tier
                /\ \A j \in 1..(k - 1) : ALL_MODELS[j].tier # tier].id>>
    ELSE <<>>

\* variant: no ranking, the first listed entry that passes the filter
selectModelForTier_FirstListed(tier, availableModels, answer) ==
    LET s == SelectSeq(availableModels, LAMBDA m : suitable(m, tier))
    IN  IF s # <<>> THEN <<s[1].id>> ELSE fallbackFor(tier)

\* selectModelForTier: the returned id as <<id>>, <<>> for undefined
selectModelForTier(tier, availableModels, answer) ==
    LET s == suitableModels(tier, availableModels)
        index == choiceIndex(answer, s)
    IN  IF index # <<>> /\ index[1] >= 0 /\ index[1] < Len(s)
        THEN <<s[index[1] + 1].id>>
        ELSE IF s # <<>> THEN <<s[1].id>> ELSE fallbackFor(tier)

\* ids a fetched catalog may list; the last is of no known family
PoolIds ==
    {<<"claude", "opus">>, <<"claude", "sonnet">>, <<"claude", "haiku">>,
     <<"gemini", "pro-high">>, <<"gemini", "flash">>, <<"gemini", "flash-lite">>}
RawIds == PoolIds \cup {<<"gpt", "oss">>}

\* family and tier are read off the id
familyOf(modelId) == IF includes(modelId, "claude") THEN "claude" ELSE "gemini"
tierOf(modelId) ==
    IF includes(modelId, "opus") \/ includes(modelId, "pro-high") THEN "opus"
    ELSE IF includes(modelId, "haiku") \/ includes(modelId, "flash-lite") THEN "haiku"
    ELSE "sonnet"

\* the metadata of one raw entry: not an object at all, or an object whose
\* remainingFraction is undefined, null or a number (in percent)
RawData ==
    {[kind |-> "null", rf |-> "undefined", n |-> 0],
     [kind |-> "object", rf |-> "undefined", n |-> 0],
     [kind |-> "object", rf |-> "null", n |-> 0],
     [kind |-> "object", rf |-> "number", n |-> 0],
     [kind |-> "object", rf |-> "number", n |-> 50]}

\* remainingFraction === undefined || remainingFraction > 0 (null > 0 is false)
hasQuotaOf(modelData) ==
    IF modelData.rf = "undefined" \/ (modelData.rf = "number" /\ modelData.n > 0)
    THEN "true" ELSE "false"

\* Object.entries(data.models): sequences of distinct ids with their metadata
RawCatalogs ==
    UNION {{r \in [1..n -> [id : RawIds, data : RawData]] :
              \A j, k \in 1..n : j # k => r[j].id # r[k].id} : n \in 0..MaxCatalog}

\* the loop over the raw entries: entries of no known family are passed over;
\* reading remainingFraction of a null entry throws
knownFamily(modelId) == includes(modelId, "claude") \/ includes(modelId, "gemini")
loopThrows(raw) ==
    \E k \in 1..Len(raw) : knownFamily(raw[k].id) /\ raw[k].data.kind = "null"
RECURSIVE loopModels(_)
loopModels(raw) ==
    IF raw = <<>> THEN <<>>
    ELSE LET e == raw[Len(raw)]
             before == loopModels(SubSeq(raw, 1, Len(raw) - 1))
         IN  IF knownFamily(e.id)
             THEN Append(before, Model(e.id, familyOf(e.id), tierOf(e.id),
                                       hasQuotaOf(e.data)))
             ELSE before

\* the accounts argument: null, or a list whose first account has a token or not
AccountArgs ==
    {[isNull |-> TRUE, list |-> <<>>], [isNull |-> FALSE, list |-> <<>>]}
        \cup {[isNull |-> FALSE, list |-> <<[accessToken |-> t]>>] :
                 t \in {<<>>, <<"at-old">>}}

\* what fetchModels(token) does: it is not called, rejects, or resolves to
\* nothing, to an object without models, or to an object with models
Fetched ==
    {[kind |-> k, models |-> <<>>] : k \in {"throws", "nothing", "nomodels"}}
        \cup {[kind |-> "models", models |-> r] : r \in RawCatalogs}
NotCalled == [kind |-> "notcalled", models |-> <<>>]
FetchInputs ==
    {[accounts |-> a, fetched |-> NotCalled] :
        a \in {x \in AccountArgs : x.isNull \/ x.list = <<>> \/ x.list[1].accessToken = <<>>}}
    \cup {[accounts |-> [isNull |-> FALSE, list |-> <<[accessToken |-> <<"at-old">>]>>],
            fetched |-> d] : d \in Fetched}

\* variant: whatever the loop kept is returned, an empty list included
fetchAvailableModels_NoFallback(accts, fetched) ==
    IF accts.isNull \/ Len(accts.list) = 0 THEN [raised |-> FALSE, models |-> ALL_MODELS]
    ELSE IF accts.list[1].accessToken = <<>> THEN [raised |-> FALSE, models |-> ALL_MODELS]
    ELSE IF fetched.kind = "models" /\ ~loopThrows(fetched.models)
         THEN [raised |-> FALSE, models |-> loopModels(fetched.models)]
         ELSE [raised |-> FALSE, models |-> ALL_MODELS]

\* fetchAvailableModels: everything after the first guard runs inside try, and
\* the catch falls through to the fallback list
fetchAvailableModels(accts, fetched) ==
    IF accts.isNull \/ Len(accts.list) = 0 THEN [raised |-> FALSE, models |-> ALL_MODELS]
    ELSE IF accts.list[1].accessToken = <<>> THEN [raised |-> FALSE, models |-> ALL_MODELS]
    ELSE IF fetched.kind = "models" /\ ~loopThrows(fetched.models)
            /\ Len(loopModels(fetched.models)) > 0
         THEN [raised |-> FALSE, models |-> loopModels(fetched.models)]
         ELSE [raised |-> FALSE, models |-> ALL_MODELS]

\* catalogs handed to the resolver: the static list, and lists of distinct ids
\* as the fetch builds them
CatalogEntries ==
    {Model(c[1], familyOf(c[1]), tierOf(c[1]), c[2]) :
        c \in PoolIds \X {"true", "false"}}
Catalogs ==
    {ALL_MODELS} \cup
    UNION {{c \in [1..n -> CatalogEntries] :
              \A j, k \in 1..n : j # k => c[j].id # c[k].id} : n \in 0..MaxCatalog}

\* selectModelForTier(rl, tier, availableModels) with the user's answer; the
\* ranked list is what lines 350-361 display
ApplySelect ==
    /\ inp.fn = "none"
    /\ \E tier \in Tiers, availableModels \in Catalogs, answer \in Answers :
          /\ inp' = [fn |-> "selectModelForTier", tier |-> tier,
                      availableModels |-> availableModels, answer |-> answer]
          /\ out' = [fn |-> "selectModelForTier",
                      ranked |-> suitableModels(tier, availableModels),
                      value |-> selectModelForTier(tier, availableModels, answer)]
    /\ UNCHANGED <<refreshVars, cliVars>>

\* fetchAvailableModels(accounts) with what the catalog fetch does
ApplyFetch ==
    /\ inp.fn = "none"
    /\ \E x \in FetchInputs :
          /\ inp' = [fn |-> "fetchAvailableModels", accounts |-> x.accounts,
                      fetched |-> x.fetched]
          /\ out' = [fn |-> "fetchAvailableModels",
                      value |-> fetchAvailableModels(x.accounts, x.fetched)]
    /\ UNCHANGED <<refreshVars, cliVars>>

\* needsRefresh(account[, thresholdMs]) evaluated at time t; the function only
\* reads the account, which is handed back as it is after the call
ApplyNeedsRefresh ==
    \E account \in NrAccounts, th \in Thresholds, t \in NrNows :
        /\ inp.fn = "none"
        /\ inp' = [fn |-> "needsRefresh", account |-> account,
                    threshold |-> th, now |-> t]
        /\ out' = [fn |-> "needsRefresh",
                    value |-> IF th = <<>> THEN needsRefresh(account, t)
                              ELSE needsRefreshWithin(account, th[1], t),
                    account |-> account]
        /\ UNCHANGED <<refreshVars, cliVars>>

FnInit == RefreshInit /\ file.kind = "missing" /\ FnIdle /\ CliIdle

FnNext ==
    \/ ApplyNeedsRefresh
    \/ ApplySelect
    \/ ApplyFetch

FnSpec == FnInit /\ [][FnNext]_vars


\* the account list the run loaded
Loaded == fileAtStart.accounts

\* ---- C1 ----
\* C1: once an account record has isInvalid = true, no run invokes the token
\* exchange for it; the account stays in the run's list and in the store.
C1_InvalidNeverExchanged ==
    /\ (pc = "await" => ~accounts[i].isInvalid)
    /\ (pc \in {"loop", "await", "done", "killed"} =>
            /\ Len(accounts) = Len(loadAccounts(fileAtStart).accounts)
            /\ \A k \in 1..Len(accounts) : accounts[k].email = Loaded[k].email)

\* ---- C2 ----
\* C2: at every point of a run before its final save (accounts unprocessed, an
\* exchange outstanding, or the run raised) the store file is the file the run
\* started from.
C2_NoPartialPersist ==
    pc \in {"loop", "await", "raised", "killed"} => file = fileAtStart

\* the run was interrupted during the exchange for a later account, an earlier
\* account's update being held in memory only
C2_Witness ==
    /\ pc = "killed" /\ i > 1
    /\ accounts[1] # Loaded[1]
    /\ file = fileAtStart

\* ---- C3 ----
\* C3: a run over a non-empty store writes the store exactly once, after the
\* outcome of the last account (no write before, one write of the whole list at
\* the end, also when every account was skipped).
C3_WritesOnce ==
    /\ (pc \in {"loop", "await", "raised", "killed"} => writes = 0)
    /\ (pc = "done" /\ Len(accounts) > 0 =>
            /\ writes = 1
            /\ i = Len(accounts) + 1
            /\ refreshed + failed + skipped = Len(accounts)
            /\ file = saveAccounts(accounts))

\* a run of at least two accounts that skipped them all and wrote once
C3_Witness ==
    /\ pc = "done" /\ Len(accounts) >= 2
    /\ skipped = Len(accounts)
    /\ writes = 1

\* ---- C4 ----
\* accounts whose refreshAccount call of this run came back as a failure
FailedSet == {k \in 1..Len(res) : \E r \in res[k] : ~r.success}
\* accounts whose exchange of this run succeeded
RefreshedSet == {k \in 1..Len(reply) : \E o \in reply[k] : o.ok}
\* the exchange for account k failed with invalid_grant or Bad Request in its message
TerminalReply(k) ==
    \E o \in reply[k] :
        ~o.ok /\ (includes(o.message, "invalid_grant") \/ includes(o.message, "Bad Request"))
Occurrences(seq, x) == Cardinality({j \in 1..Len(seq) : seq[j] = x})

\* C4: an attempted account whose exchange fails with a message containing
\* invalid_grant or Bad Request ends the run with isInvalid = true, the fixed
\* invalidReason, its email once in invalidAccounts, one count in failed, and
\* accessToken, tokenExpiresAt and refreshToken as they were loaded.
C4_TerminalFailure ==
    pc = "done" =>
        \A k \in 1..Len(accounts) : TerminalReply(k) =>
            /\ accounts[k].isInvalid = TRUE
            /\ accounts[k].invalidReason = "Refresh token expired or revoked"
            /\ accounts[k].accessToken = Loaded[k].accessToken
            /\ accounts[k].tokenExpiresAt = Loaded[k].tokenExpiresAt
            /\ accounts[k].refreshToken = Loaded[k].refreshToken
            /\ file.accounts[k] = accounts[k]
            /\ \A r \in result :
                  /\ Occurrences(r.invalidAccounts, accounts[k].email) = 1
                  /\ r.failed = Cardinality(FailedSet)
            /\ k \in FailedSet

\* a finished run in which one exchange failed with Bad Request and another
\* with invalid_grant
C4_Witness ==
    /\ pc = "done"
    /\ \E k \in 1..Len(accounts) :
          \E o \in reply[k] : ~o.ok /\ includes(o.message, "Bad Request")
    /\ \E k \in 1..Len(accounts) :
          \E o \in reply[k] : ~o.ok /\ includes(o.message, "invalid_grant")

\* ---- C5 ----
\* C5: an attempted account whose exchange succeeds ends the run with the
\* returned accessToken, tokenExpiresAt = time of the update + lifetime,
\* isInvalid false, invalidReason cleared, and one count in refreshed.
C5_Success ==
    pc = "done" =>
        \A k \in 1..Len(accounts) : \A o \in reply[k] : o.ok =>
            /\ accounts[k].accessToken = o.accessToken
            /\ updAt[k] # <<>>
            /\ accounts[k].tokenExpiresAt = <<"iso", updAt[k][1] + o.expiresIn * 1000>>
            /\ accounts[k].isInvalid = FALSE
            /\ accounts[k].invalidReason = Null
            /\ file.accounts[k] = accounts[k]
            /\ \A r \in result : r.refreshed = Cardinality(RefreshedSet)
            /\ refreshed = Cardinality(RefreshedSet)

\* a finished run that refreshed an account flagged invalid, the exchange
\* having taken some time
C5_Witness ==
    /\ pc = "done"
    /\ \E k \in 1..Len(accounts) :
          /\ \E o \in reply[k] : o.ok
          /\ Loaded[k].isInvalid
          /\ updAt[k] # <<>> /\ updAt[k][1] > 0

\* ---- C6 ----
\* C6: the refresh of an account is attempted iff force or needsRefresh(account);
\* without force an account that is not due is counted skipped and its record
\* is left as loaded; with force no account is skipped.
C6_AttemptIffDue ==
    /\ [][(pc = "loop" /\ i <= Len(accounts)) =>
            IF force \/ needsRefresh(accounts[i], now)
            THEN /\ (pc' = "await" /\ exch'[i]) \/ res'[i] # {}
                 /\ skipped' = skipped
            ELSE /\ skipped' = skipped + 1
                 /\ pc' = "loop" /\ i' = i + 1
                 /\ ~exch'[i] /\ res'[i] = {}
                 /\ accounts' = accounts]_vars
    /\ [](pc = "done" =>
            /\ \A k \in 1..Len(accounts) :
                  res[k] = {} => accounts[k] = Loaded[k] /\ file.accounts[k] = Loaded[k]
            /\ skipped = Cardinality({k \in 1..Len(accounts) : res[k] = {}})
            /\ force => skipped = 0)

\* an unforced run that skipped one account and attempted another
C6_Witness ==
    /\ pc = "done" /\ ~force
    /\ \E k \in 1..Len(accounts) : res[k] = {}
    /\ \E k \in 1..Len(accounts) : res[k] # {}

\* ---- C7 ----
\* C7: for an account without a refreshToken refreshAccount returns the failure
\* "No refresh token available" and the exchange is never invoked for it.
C7_NoRefreshToken ==
    \A k \in 1..Len(accounts) :
        Falsy(accounts[k].refreshToken) =>
            /\ ~exch[k]
            /\ reply[k] = {}
            /\ \A r \in res[k] :
                  ~r.threw /\ ~r.success /\ r.error = <<"No refresh token available">>
            /\ (force /\ k < i => res[k] # {})

\* a finished run that attempted an account without a refresh token
C7_Witness ==
    /\ pc = "done"
    /\ \E k \in 1..Len(accounts) :
          Falsy(accounts[k].refreshToken) /\ res[k] # {} /\ failed > 0

\* ---- C8 ----
\* the run before this one refreshed every account, and no time has passed
\* between those updates and the start of this run
AfterFreshRun == prev.fresh
AllSkipped ==
    /\ \A k \in 1..Len(accounts) : ~exch[k]
    /\ \A r \in result :
          r.skipped = Len(accounts) /\ r.refreshed = 0 /\ r.failed = 0

\* C8 as stated: after a run that refreshed every account, an immediately
\* following unforced run makes no exchange call and returns skipped = number
\* of accounts, refreshed = 0, failed = 0, whatever the lifetimes returned.
C8_IdempotentAnyLifetime ==
    (pc = "done" /\ ~force /\ AfterFreshRun) => AllSkipped

\* C8 amended: the same, provided every lifetime returned in the first run is at
\* least the five-minute threshold (300 seconds).
C8_IdempotentLongLived ==
    (pc = "done" /\ ~force /\ AfterFreshRun
        /\ \A L \in prev.lives : L * 1000 >= 5 * 60 * 1000) => AllSkipped

\* a second run over two or more freshly refreshed accounts, one of them with
\* a lifetime of exactly the threshold
C8_Witness ==
    /\ pc = "done" /\ ~force /\ AfterFreshRun
    /\ Len(accounts) >= 2
    /\ 300 \in prev.lives
    /\ \A L \in prev.lives : L * 1000 >= 5 * 60 * 1000
    /\ skipped = Len(accounts)

\* ---- C9 ----
\* C9: provided every exchange call settles, every run ends by returning its
\* counts and never raises, whatever the exchange answers for each account.
C9_RunReturns ==
    /\ [](pc # "raised")
    /\ (pc \in {"loop", "await"}) ~>
          (pc = "done" /\ \E r \in result :
                r.refreshed + r.failed + r.skipped = Len(accounts))

\* a run returned although the exchange failed for every one of two or more accounts
C9_Witness ==
    /\ pc = "done" /\ Len(accounts) >= 2
    /\ \A k \in 1..Len(accounts) : \E o \in reply[k] : ~o.ok
    /\ \E r \in result : r.failed = Len(accounts)

\* ---- C10 ----
\* C10: with a missing, unparsable or account-less store file, loading does not
\* raise, no exchange call is made and the run returns
\* {refreshed: 0, failed: 0, skipped: 0, invalidAccounts: []}.
C10_EmptyStoreFullResult ==
    (pc = "done" /\ (loadAccounts(fileAtStart).isNull
                      \/ ~loadAccounts(fileAtStart).hasAccounts
                      \/ Len(fileAtStart.accounts) = 0)) =>
        /\ \A k \in 1..Len(exch) : ~exch[k]
        /\ result = {[refreshed |-> 0, failed |-> 0, skipped |-> 0,
                       invalidAccounts |-> <<>>]}

\* ---- C19 ----
\* the threshold in force for the applied call: the argument, or five minutes
\* when it was omitted
ThresholdInForce ==
    IF inp.threshold = <<>> THEN 5 * 60 * 1000 ELSE inp.threshold[1]

\* C19: needsRefresh(account, threshold) is true when tokenExpiresAt is
\* absent, and for a tokenExpiresAt that is an instant it is true exactly when
\* tokenExpiresAt - now < threshold (strictly), for every threshold >= 0; the
\* account is the same after the call.
C19_NeedsRefresh ==
    inp.fn = "needsRefresh" =>
        /\ inp.account.tokenExpiresAt = <<>> => out.value = TRUE
        /\ (Len(inp.account.tokenExpiresAt) = 2) =>
              (out.value <=>
                  (inp.account.tokenExpiresAt[2] - inp.now < ThresholdInForce))
        /\ out.account = inp.account

\* a token expiring exactly threshold from now was found not due
C19_Witness ==
    /\ inp.fn = "needsRefresh"
    /\ Len(inp.account.tokenExpiresAt) = 2
    /\ inp.threshold # <<>>
    /\ inp.threshold[1] > 0
    /\ inp.account.tokenExpiresAt[2] - inp.now = inp.threshold[1]
    /\ out.value = FALSE

\* ---- C11 ----
\* C11: after a run over a non-empty store, an email is in the returned
\* invalidAccounts exactly when that account's record in the persisted document
\* has isInvalid = true.
C11_InvalidListMatchesStore ==
    (pc = "done" /\ Len(Loaded) > 0) =>
        \A r \in result :
            \A k \in 1..Len(file.accounts) :
                (Occurrences(r.invalidAccounts, file.accounts[k].email) > 0)
                    <=> (file.accounts[k].isInvalid = TRUE)

\* ---- C12 ----
\* the runs of the command's process that ended
EndedRuns == {r \in InProcess(inv.how) : rn[r].pc = "done"}

\* C12: the refresh command's process exits non-zero whenever the refresh run
\* ended with failed > 0 and with status zero when failed = 0, started through
\* refresh.js directly or through the refresh case of bin/cli.js.
C12_ExitStatus ==
    exited # <<>> =>
        /\ (\E r \in EndedRuns : rn[r].failed > 0) => exited = <<1>>
        /\ (\A r \in EndedRuns : rn[r].failed = 0) => exited = <<0>>

\* ---- C13 ----
\* two runs overlapped: each read the store before any save, and both saved
Overlapped ==
    /\ Len(saveOrder) = 2
    /\ \A r \in Participants(inv.how) : rn[r].pc = "done" /\ rn[r].savesSeen = 0

\* C13: when two runRefresh runs overlap (both read the store before either
\* saves), the persisted document after both have finished is the complete
\* account list written by the run that saved last, never a mixture of records
\* of both runs.
C13_LastWriteWins ==
    Overlapped =>
        /\ file.kind = "json"
        /\ file.accounts = rn[saveOrder[2]].accounts

\* two overlapped runs ended with different records for some account, and the
\* record of the run that saved first is not the persisted one
C13_Witness ==
    /\ Overlapped
    /\ file.accounts = rn[saveOrder[2]].accounts
    /\ \E k \in 1..Len(file.accounts) :
          /\ rn[saveOrder[1]].accounts[k] # rn[saveOrder[1]].loaded[k]
          /\ rn[saveOrder[1]].accounts[k] # file.accounts[k]

\* ---- C14 ----
\* the first entry of the static fallback list of exactly the given tier
FirstStaticOfTier(tier) ==
    IF tier = "opus" THEN <<"claude", "opus", "4-5-thinking">>
    ELSE IF tier = "sonnet" THEN <<"claude", "sonnet", "4-5-thinking">>
    ELSE <<"gemini", "2.5", "flash-lite">>
\* the entries of the applied catalog whose tier rank is at least
\* rank(tier) - 1
PassingFilter ==
    {k \in 1..Len(inp.availableModels) :
        tierPriority(inp.availableModels[k].tier) >= tierPriority(inp.tier) - 1}

OnlySonnetWithQuota ==
    /\ inp.fn = "selectModelForTier"
    /\ Len(inp.availableModels) = 1
    /\ inp.availableModels[1].tier = "sonnet"
    /\ inp.availableModels[1].hasQuota = "true"
    /\ inp.answer.typed = "nothing"

\* C15: for a catalog holding only one sonnet-tier model x with quota,
\* resolving opus returns x, and resolving haiku does not return x but the
\* static fallback haiku entry.
C15_TierSubstitution ==
    OnlySonnetWithQuota =>
        /\ inp.tier = "opus" => out.value = <<inp.availableModels[1].id>>
        /\ inp.tier = "haiku" =>
              /\ out.value # <<inp.availableModels[1].id>>
              /\ out.value = << <<"gemini", "2.5", "flash-lite">> >>

\* ---- C16 ----
\* an entry counts as having quota unless hasQuota is false
WithQuota(m) == m.hasQuota # "false"
\* the catalog entry whose id was returned
Picked == {k \in 1..Len(inp.availableModels) : <<inp.availableModels[k].id>> = out.value}

\* C16: with the default accepted, if some entry passing the tier filter has
\* quota then the returned entry has quota, whatever the order, family or tier
\* of the entries without quota; if none has, the returned entry is the first
\* of the ranked list.
C16_DefaultHasQuota ==
    (inp.fn = "selectModelForTier" /\ inp.answer.typed = "nothing"
        /\ PassingFilter # {}) =>
        IF \E k \in PassingFilter : WithQuota(inp.availableModels[k])
        THEN /\ Picked # {}
             /\ \A k \in Picked :
                   k \in PassingFilter /\ WithQuota(inp.availableModels[k])
        ELSE out.value = <<suitableModels(inp.tier, inp.availableModels)[1].id>>

\* the example: an opus entry without quota listed before an opus entry with
\* quota, and the second one returned
C16_Witness ==
    /\ inp.fn = "selectModelForTier"
    /\ inp.tier = "opus"
    /\ inp.answer.typed = "nothing"
    /\ Len(inp.availableModels) = 2
    /\ inp.availableModels[1].tier = "opus" /\ inp.availableModels[1].hasQuota = "false"
    /\ inp.availableModels[2].tier = "opus" /\ inp.availableModels[2].hasQuota = "true"
    /\ out.value = <<inp.availableModels[2].id>>

\* ---- C17 ----
\* the cases the fallback list is promised for
FallbackCase ==
    \/ inp.accounts.isNull
    \/ inp.accounts.list = <<>>
    \/ inp.accounts.list[1].accessToken = <<>>
    \/ inp.fetched.kind \in {"throws", "nothing", "nomodels"}
    \/ inp.fetched.models = <<>>
    \/ \A k \in 1..Len(inp.fetched.models) :
          /\ ~includes(inp.fetched.models[k].id, "claude")
          /\ ~includes(inp.fetched.models[k].id, "gemini")

\* C17: fetchAvailableModels never raises and never returns an empty list; it
\* returns the static fallback list when there are no accounts, the first
\* account has no access token, the fetch fails, the fetched catalog is empty
\* or absent, or no fetched entry is of a known family.
C17_FetchFallsBack ==
    inp.fn = "fetchAvailableModels" =>
        /\ ~out.value.raised
        /\ Len(out.value.models) > 0
        /\ FallbackCase => out.value.models = ALL_MODELS

\* a fetched catalog with entries, none of a known family, gave the static list
C17_Witness ==
    /\ inp.fn = "fetchAvailableModels"
    /\ inp.fetched.kind = "models"
    /\ Len(inp.fetched.models) > 0
    /\ \A k \in 1..Len(inp.fetched.models) : inp.fetched.models[k].id = <<"gpt", "oss">>
    /\ out.value.models = ALL_MODELS

\* ---- C18 ----
\* the attempt on account k failed without invalid_grant or Bad Request in the
\* message: a transient exchange failure, or no refresh token at all
TransientFailure(k) ==
    \/ \E o \in reply[k] :
          ~o.ok /\ ~includes(o.message, "invalid_grant")
                /\ ~includes(o.message, "Bad Request")
    \/ (~exch[k] /\ \E r \in res[k] : ~r.success)

\* C18: an attempted account whose failure message contains neither
\* invalid_grant nor Bad Request (a missing refresh token included) is persisted
\* with every field as it was loaded, is counted once in failed, and its email
\* is not in invalidAccounts.
C18_TransientFailure ==
    pc = "done" =>
        \A k \in 1..Len(accounts) : TransientFailure(k) =>
            /\ accounts[k] = Loaded[k]
            /\ file.accounts[k] = Loaded[k]
            /\ k \in FailedSet
            /\ \A r \in result :
                  /\ r.failed = Cardinality(FailedSet)
                  /\ Occurrences(r.invalidAccounts, Loaded[k].email) = 0

\* a finished run in which a valid account's exchange failed with a network
\* error and another account had no refresh token
C18_Witness ==
    /\ pc = "done"
    /\ \E k \in 1..Len(accounts) :
          /\ ~Loaded[k].isInvalid
          /\ \E o \in reply[k] : ~o.ok /\ o.message = <<"fetch failed">>
    /\ \E k \in 1..Len(accounts) : ~exch[k] /\ \E r \in res[k] : ~r.success

\* ---- C20 ----
\* accounts the run passed over without calling refreshAccount
SkippedSet == {k \in 1..Len(res) : res[k] = {}}
\* accounts whose refreshAccount call came back as a success
SucceededSet == {k \in 1..Len(res) : \E r \in res[k] : r.success}
\* the store of the example: first account expiring in 2 minutes, second in one
\* hour, both valid and holding a refresh token
TwoAccountExample ==
    /\ Len(Loaded) = 2
    /\ \A k \in 1..2 : ~Loaded[k].isInvalid /\ Loaded[k].refreshToken = "rt"
    /\ Loaded[1].tokenExpiresAt = <<"iso", 2 * 60 * 1000>>
    /\ Loaded[2].tokenExpiresAt = <<"iso", 60 * 60 * 1000>>
    /\ ~force
    /\ \E o \in reply[1] : o.ok

\* C20: a run over n accounts puts each account in exactly one of refreshed,
\* failed and skipped, so the three counts sum to n; an unforced run over one
\* account expiring in 2 minutes and one expiring in an hour, with a successful
\* exchange, returns refreshed 1, skipped 1, failed 0.
C20_CountsPartition ==
    (pc = "done" /\ Len(Loaded) > 0) =>
        \A r \in result :
            /\ r.refreshed = Cardinality(SucceededSet)
            /\ r.failed = Cardinality(FailedSet)
            /\ r.skipped = Cardinality(SkippedSet)
            /\ r.refreshed + r.failed + r.skipped = Len(Loaded)
            /\ TwoAccountExample =>
                  (r.refreshed = 1 /\ r.skipped = 1 /\ r.failed = 0)

\* the example run has finished
C20_Witness == pc = "done" /\ TwoAccountExample

\* ---- C21 ----
\* C21: a run changes at most accessToken, tokenExpiresAt, isInvalid and
\* invalidReason of existing records: the persisted document has the same
\* number of records in the same order with the same email and refreshToken as
\* before the run, so one record per email stays one record per email.
C21_FrameOfRun ==
    (pc = "done" /\ Len(Loaded) > 0) =>
        /\ file.kind = "json"
        /\ Len(file.accounts) = Len(Loaded)
        /\ \A k \in 1..Len(Loaded) :
              /\ file.accounts[k].email = Loaded[k].email
              /\ file.accounts[k].refreshToken = Loaded[k].refreshToken
        /\ \A j, k \in 1..Len(file.accounts) :
              j # k => file.accounts[j].email # file.accounts[k].email

\* a finished run that refreshed one account and flagged another invalid
C21_Witness ==
    /\ pc = "done"
    /\ \E k \in 1..Len(Loaded) : \E o \in reply[k] : o.ok
    /\ \E k \in 1..Len(Loaded) :
          ~Loaded[k].isInvalid /\ file.accounts[k].isInvalid = TRUE

\* ---- C22 ----
\* exchange calls of the run that were started and whose outcome has not been
\* applied to the account
Outstanding == {k \in 1..Len(exch) : exch[k] /\ res[k] = {}}

\* C22: within one run the exchange calls are issued in store order and
\* awaited one at a time: at most one call is outstanding, and the call for a
\* later account is not started before the outcome of every earlier attempted
\* account has been applied.
C22_OneAtATime ==
    /\ Cardinality(Outstanding) <= 1
    /\ \A k \in 1..Len(exch) : exch[k] =>
          /\ k <= i
          /\ \A j \in 1..(k - 1) : exch[j] => res[j] # {}

\* the second account's exchange is outstanding after the first account's
\* outcome was applied
C22_Witness ==
    /\ pc = "await"
    /\ i = 2
    /\ exch[1] /\ res[1] # {}
    /\ Outstanding = {2}

\* ---- C23 ----
\* invalidReason is present on the record
HasReason(a) == a.invalidReason # Undefined /\ a.invalidReason # Null

\* C23: from a store in which every record with an invalidReason has
\* isInvalid = true, every state the store reaches through any sequence of
\* runs (any outcomes, forced or not) has invalidReason only on records whose
\* isInvalid is true.
C23_ReasonOnlyWhenInvalid ==
    file.kind = "json" =>
        \A k \in 1..Len(file.accounts) :
            HasReason(file.accounts[k]) => file.accounts[k].isInvalid = TRUE

\* a record that was flagged invalid with a reason is persisted valid and
\* without reason after a successful exchange
C23_Witness ==
    /\ pc = "done"
    /\ \E k \in 1..Len(Loaded) :
          /\ Loaded[k].isInvalid /\ HasReason(Loaded[k])
          /\ file.accounts[k].isInvalid = FALSE
          /\ ~HasReason(file.accounts[k])

\* ---- C24 ----
\* the family put first for the requested tier
PreferredFamily == IF inp.tier = "haiku" THEN "gemini" ELSE "claude"

\* C24: in the ranked list of selectModelForTier, among entries with the same
\* quota status an entry of the preferred family precedes every entry of the
\* other family: gemini for a haiku request, claude for opus and sonnet.
C24_FamilyPreference ==
    inp.fn = "selectModelForTier" =>
        \A j, k \in 1..Len(out.ranked) :
            (/\ out.ranked[j].hasQuota = out.ranked[k].hasQuota
             /\ out.ranked[j].family = PreferredFamily
             /\ out.ranked[k].family # PreferredFamily) => j < k

\* a haiku request on a catalog listing a claude entry before a gemini entry of
\* the same quota status ranked the gemini entry first
C24_Witness ==
    /\ inp.fn = "selectModelForTier"
    /\ inp.tier = "haiku"
    /\ Len(inp.availableModels) = 2
    /\ inp.availableModels[1].family = "claude"
    /\ inp.availableModels[2].family = "gemini"
    /\ inp.availableModels[1].hasQuota = inp.availableModels[2].hasQuota
    /\ Len(out.ranked) = 2
    /\ out.ranked[1].family = "gemini"

\* ---- C25 ----
\* C25: among ranked entries with the same quota status and family, an entry of
\* exactly the requested tier precedes every entry of another tier, for each
\* requested tier; so on the static fallback list the default pick for a tier
\* has that tier.
C25_ExactTierFirst ==
    inp.fn = "selectModelForTier" =>
        /\ \A j, k \in 1..Len(out.ranked) :
              (/\ out.ranked[j].hasQuota = out.ranked[k].hasQuota
               /\ out.ranked[j].family = out.ranked[k].family
               /\ out.ranked[j].tier = inp.tier
               /\ out.ranked[k].tier # inp.tier) => j < k
        /\ (inp.availableModels = ALL_MODELS /\ inp.answer.typed = "nothing") =>
              \A k \in 1..Len(ALL_MODELS) :
                  <<ALL_MODELS[k].id>> = out.value => ALL_MODELS[k].tier = inp.tier

\* ---- C26 ----
\* C26: the static fallback list, as returned by fetchAvailableModels when it
\* falls back, has at least one descriptor for every combination of family
\* (claude, gemini) and tier (opus, sonnet, haiku).
C26_FallbackCoversAll ==
    (inp.fn = "fetchAvailableModels" /\ inp.fetched.kind = "throws") =>
        \A f \in {"claude", "gemini"} : \A t \in {"opus", "sonnet", "haiku"} :
            \E k \in 1..Len(out.value.models) :
                out.value.models[k].family = f /\ out.value.models[k].tier = t

\* C26 as amended: the static fallback list, as returned when the fetch falls
\* back, has a descriptor for every tier, and for every family and tier other
\* than claude with haiku; its only haiku descriptor is a gemini one.
C26_FallbackCoversTiers ==
    (inp.fn = "fetchAvailableModels" /\ inp.fetched.kind = "throws") =>
        /\ \A t \in {"opus", "sonnet", "haiku"} :
              \E k \in 1..Len(out.value.models) : out.value.models[k].tier = t
        /\ \A f \in {"claude", "gemini"} : \A t \in {"opus", "sonnet", "haiku"} :
              (f # "claude" \/ t # "haiku") =>
                  \E k \in 1..Len(out.value.models) :
                      out.value.models[k].family = f /\ out.value.models[k].tier = t
        /\ \A k \in 1..Len(out.value.models) :
              out.value.models[k].tier = "haiku" => out.value.models[k].family = "gemini"

\* the fetch rejected and the fallback list of seven descriptors was returned
C26_Witness ==
    /\ inp.fn = "fetchAvailableModels"
    /\ inp.fetched.kind = "throws"
    /\ ~out.value.raised
    /\ Len(out.value.models) = 7

\* ---- C27 ----
\* raw entries of a known family whose metadata is an object
WellFormed(raw) ==
    SelectSeq(raw, LAMBDA e : (includes(e.id, "claude") \/ includes(e.id, "gemini"))
                               /\ e.data.kind = "object")
\* raw entries of a known family whose metadata is null
Malformed(raw) ==
    SelectSeq(raw, LAMBDA e : (includes(e.id, "claude") \/ includes(e.id, "gemini"))
                               /\ e.data.kind = "null")

\* C27: when the fetched catalog holds a malformed entry (known family, null
\* metadata) together with a well-formed entry of a known family,
\* fetchAvailableModels does not raise, drops the malformed entry and returns
\* the descriptors of the well-formed entries.
C27_MalformedDropped ==
    (/\ inp.fn = "fetchAvailableModels"
     /\ inp.fetched.kind = "models"
     /\ Malformed(inp.fetched.models) # <<>>
     /\ WellFormed(inp.fetched.models) # <<>>) =>
        /\ ~out.value.raised
        /\ Len(out.value.models) = Len(WellFormed(inp.fetched.models))
        /\ \A k \in 1..Len(out.value.models) :
              out.value.models[k].id = WellFormed(inp.fetched.models)[k].id

\* ---- C28 ----
\* the runs the command's process has started
StartedRuns == {r \in InProcess(inv.how) : rn[r].pc # "none"}

\* C28: one invocation of the refresh command through bin/cli.js performs one
\* refresh run: the store is read once, no two runs have an exchange call
\* outstanding for the same account, and the store is written at most once.
C28_OneRunPerInvocation ==
    inv.how = "cli" =>
        /\ Cardinality(StartedRuns) <= 1
        /\ \A r1, r2 \in StartedRuns :
              (r1 # r2 /\ rn[r1].pc = "await" /\ rn[r2].pc = "await") =>
                  rn[r1].i # rn[r2].i
        /\ Cardinality({k \in 1..Len(saveOrder) : saveOrder[k] \in InProcess(inv.how)}) <= 1

TypeOK == pc \in {"idle", "loop", "await", "done", "raised", "killed"}
====
